---- MODULE Spec2Model ----
(***************************************************************************)
(* Riptide_web: the frame loop, the lighthouse signals and the zoom        *)
(* (detail view) coordinator.                                              *)
(*                                                                         *)
(* Units.  Lengths are in tenths of a pixel, scales in hundredths,         *)
(* angles in thousandths of a radian, signal progress in hundredths and    *)
(* time in frames (the unit of the ticker's delta).  Entities are numbered:*)
(* the boat is 0 and the lighthouses are 1..NumLighthouses, in the order   *)
(* of config.lighthouse.positions; null is -1.                             *)
(***************************************************************************)
EXTENDS Integers, Sequences, FiniteSets, TLC

(***************************************************************************)
(* Bounds of the exploration.                                              *)
(***************************************************************************)
NumLighthouses == 2      \* the first lighthouses of config.lighthouse.positions
TweenSteps == 2          \* gsap ticks a one-second tween takes
MaxInputs == 3           \* user events in one behaviour of the zoom scenario
MaxZoomTicks == 1        \* frames in one behaviour of the zoom scenario
MaxSignalInputs == 2     \* user events in one behaviour of the signal scenario
MaxTicks == 3            \* frames in one behaviour of the signal scenario
MaxFairInputs == 3       \* user events in one behaviour of the exit scenario
MaxFairTicks == 1        \* frames in one behaviour of the exit scenario
MaxResizeInputs == 2     \* user events in one behaviour of the resize scenario
MaxResizes == 2          \* window resize events in one behaviour
MaxResizeTicks == 1      \* frames in one behaviour of the resize scenario
MaxDayTicks == 40        \* frames in one behaviour of the day/night scenario
MaxTimerTicks == 40      \* frames in one behaviour of the timer scenario
MaxPatrolTicks == 400    \* frames in one behaviour of the patrol scenario
MaxKeys == 2             \* presses of the 't' key in one behaviour
MaxRoundTripInputs == 4  \* user events in one behaviour of the round-trip scenario
MaxImages == 2           \* images of CONFIG.assets.images that are configured
MaxSpritesheets == 1     \* spritesheets that are configured
MaxAudio == 2            \* audio files of CONFIG.assets.audio that are configured

(***************************************************************************)
(* Configuration (config.js).                                              *)
(***************************************************************************)
ScreenWidth == 6400
ScreenHeight == 3600
positions ==
    << [x |-> 45, y |-> 18], [x |-> 43, y |-> 60], [x |-> 38, y |-> 86] >>
blinkRate == 60
signalRate == 120
signalSpeed == 1
startPosition == [x |-> 50, y |-> 40]
boatSpeed == 5
rotationSpeed == 2
pathPoints ==
    << [x |-> 50, y |-> 40], [x |-> 60, y |-> 35], [x |-> 70, y |-> 40],
       [x |-> 65, y |-> 50], [x |-> 55, y |-> 45], [x |-> 40, y |-> 35],
       [x |-> 30, y |-> 40], [x |-> 35, y |-> 30] >>
windIntensity == 0
lightY == -650
\* CONFIG.dayNightCycle, in frames
dayDuration == 14400
nightDuration == 3600
transitionDuration == 1800
totalDuration == dayDuration + nightDuration

Boat == 0
Lighthouses == 1 .. NumLighthouses
Entities == {Boat} \cup Lighthouses
null == -1
NoRecord == [none |-> TRUE]
Props == {"x", "y", "scale", "rotation"}

(***************************************************************************)
(* Inputs of a frame: the ticker's delta, the two Math.random() draws of   *)
(* updateSignals and the value of the buoyancy sine composite             *)
(* sin(t) + 0.3 sin(1.5 t), in hundredths.                                 *)
(***************************************************************************)
Deltas == {40, 60}
BuoyancyOffsets == {-130, 130}
\* the zoom scenario: few frames, of one delta and without ambient signals
ZoomScenario ==
    [inputs |-> MaxInputs, ticks |-> MaxZoomTicks, deltas |-> {60},
     spawns |-> {FALSE}, sources |-> {1}, timers |-> {90},
     offsets |-> BuoyancyOffsets, selectable |-> Entities,
     textures |-> {1000}]
\* the signal scenario: frames of every kind, few user events
SignalScenario ==
    [inputs |-> MaxSignalInputs, ticks |-> MaxTicks, deltas |-> Deltas,
     spawns |-> BOOLEAN, sources |-> {1}, timers |-> {90}, offsets |-> {130},
     selectable |-> {1}, textures |-> {1000}]
\* the exit scenario: the boat and one lighthouse, selected and left
FairScenario ==
    [inputs |-> MaxFairInputs, ticks |-> MaxFairTicks, deltas |-> {60},
     spawns |-> {FALSE}, sources |-> {1}, timers |-> {90}, offsets |-> {130},
     selectable |-> {Boat, 1}, textures |-> {1000}]
\* inner sizes of the window, in tenths of a pixel
Sizes ==
    {[width |-> 6400, height |-> 3600], [width |-> 8000, height |-> 4000]}
\* the resize scenario: one lighthouse or the boat focused, the window resized
ResizeScenario ==
    [inputs |-> MaxResizeInputs, ticks |-> MaxResizeTicks, deltas |-> {60},
     spawns |-> {FALSE}, sources |-> {1}, timers |-> {90}, offsets |-> {130},
     selectable |-> {Boat, 1}, textures |-> {0, 1000},
     resizes |-> MaxResizes, sizes |-> Sizes]
\* deltas of the day/night scenario, all shorter than the night
DayDeltas == {450, 600, 900}
DayScenario(d) ==
    [inputs |-> 0, ticks |-> MaxDayTicks, deltas |-> {d},
     spawns |-> {FALSE}, sources |-> {1}, timers |-> {90}, offsets |-> {130},
     selectable |-> {}, textures |-> {1000}]
\* deltas and initial timer values of the timer scenario
TimerDeltas == {40, 50}
TimerPhases == {0, 30, 60, 90}
TimerScenario(d) ==
    [inputs |-> 0, ticks |-> MaxTimerTicks, deltas |-> {d},
     spawns |-> {FALSE}, sources |-> {1}, timers |-> TimerPhases,
     offsets |-> {130}, selectable |-> {}, textures |-> {1000}]
\* the loader scenario: loadAssets in each of its branches, on configurations
\* of up to MaxImages images, MaxSpritesheets spritesheets and MaxAudio audio
\* files; no frame and no user event before it resolves
Branches == {"PIXI.Loader", "PIXI.Assets", "manual"}
AssetConfigs ==
    [images : {1 .. n : n \in 0 .. MaxImages},
     spritesheets : {1 .. n : n \in 0 .. MaxSpritesheets},
     audio : {1 .. n : n \in 0 .. MaxAudio}]
LoaderScenario ==
    [inputs |-> 0, ticks |-> 0, deltas |-> {60},
     spawns |-> {FALSE}, sources |-> {1}, timers |-> {90}, offsets |-> {130},
     selectable |-> {}, textures |-> {1000},
     branches |-> Branches, configs |-> AssetConfigs]
\* the round-trip scenario: one lighthouse selected and left, no frame
RoundTripScenario ==
    [inputs |-> MaxRoundTripInputs, ticks |-> 0, deltas |-> {60},
     spawns |-> {FALSE}, sources |-> {1}, timers |-> {90}, offsets |-> {130},
     selectable |-> {1}, textures |-> {1000}]
\* the key scenario: a sweep of the day phase with presses of the 't' key
KeyScenario(d) ==
    [inputs |-> MaxKeys, ticks |-> MaxDayTicks, deltas |-> {d},
     spawns |-> {FALSE}, sources |-> {1}, timers |-> {90}, offsets |-> {130},
     selectable |-> {}, textures |-> {1000}]
\* deltas of the patrol scenario: steps of 2 and 2.5 pixels, below the
\* 3 pixels of the waypoint test; the whole path is 567 pixels long
PatrolDeltas == {4, 5}
PatrolScenario(d) ==
    [inputs |-> 0, ticks |-> MaxPatrolTicks, deltas |-> {d},
     spawns |-> {FALSE}, sources |-> {1}, timers |-> {90},
     offsets |-> {130}, selectable |-> {}, textures |-> {1000}]

Abs(n) == IF n < 0 THEN -n ELSE n
Ceil(a, b) == (a + b - 1) \div b
Sign(n) == IF n < 0 THEN -1 ELSE 1
\* JavaScript number division, rounded toward zero to stay in the integers
Quot(a, b) == Sign(a) * Sign(b) * (Abs(a) \div Abs(b))

RECURSIVE SqrtBits(_, _, _)
SqrtBits(n, r, bit) ==
    IF bit = 0 THEN r
    ELSE IF (r + bit) * (r + bit) <= n THEN SqrtBits(n, r + bit, bit \div 2)
         ELSE SqrtBits(n, r, bit \div 2)
\* Math.sqrt, rounded down
Sqrt(n) == SqrtBits(n, 0, 8192)

\* Math.atan2 in thousandths of a radian (error below 0.004 rad)
AtanUnit(z) == (785 * z) \div 1000 + (273 * z * (1000 - z)) \div 1000000
Atan2(dy, dx) ==
    LET a == Abs(dy)
        b == Abs(dx)
        t == IF a = 0 /\ b = 0 THEN 0
             ELSE IF b >= a THEN AtanUnit((a * 1000) \div b)
             ELSE 1571 - AtanUnit((b * 1000) \div a)
    IN  IF dx >= 0 THEN (IF dy >= 0 THEN t ELSE -t)
        ELSE (IF dy >= 0 THEN 3142 - t ELSE t - 3142)

RECURSIVE NormalizeAngle(_)
NormalizeAngle(d) ==
    IF d > 3142 THEN NormalizeAngle(d - 6284)
    ELSE IF d < -3142 THEN NormalizeAngle(d + 6284)
    ELSE d

Range(s) == {s[i] : i \in 1 .. Len(s)}
Splice(s, i) == [j \in 1 .. Len(s) - 1 |-> IF j < i THEN s[j] ELSE s[j + 1]]

VARIABLES
    isZoomed,           \* state.isZoomed
    currentDetailView,  \* state.currentDetailView: an entity or null
    container,          \* entity -> its container's x, y, scale, rotation
    originalPosition,   \* entity -> the record stored by zoomTo..., or NoRecord
    tweens,             \* gsap's running tweens of entity containers, oldest first
    backButton,         \* module whose back button is in layers.zoomedView
    time,               \* state.time
    signalTimer,        \* lighthouse -> signalTimer
    blinkTimer,         \* lighthouse -> blinkTimer
    currentPointIndex,  \* boat.path.currentPointIndex (0-based)
    originalY,          \* boat.physics.originalY
    signals,            \* state.signals: ids of Signal objects, in array order
    effects,            \* id -> Signal object whose container is in layers.effects
    nextId,             \* history: number of Signal objects constructed
    ticks,              \* history: number of frames run
    inputs,             \* history: number of user events delivered
    event,              \* history: the last user event delivered
    scenario,           \* the bounds and input sets of this behaviour
    preZoom,            \* history: entity -> its transform when last selected
    screen,             \* app.screen: width and height of the renderer
    points,             \* boat.path.points
    buoyancyAmplitude,  \* boat.physics.buoyancyAmplitude
    boatSprite,         \* boatSprite: unscaled width and scale.x (thousandths)
    totalTime,          \* totalTime of the day/night system
    timeOfDay,          \* timeOfDay of the day/night system, times totalDuration
    isDay,              \* isDay of the day/night system
    skyAlpha,           \* skyOverlay.alpha, in thousandths
    flips,              \* history: number of changes of isDay
    order,              \* history: the updates of the last frame, in order
    prevTime,           \* history: state.time before the last frame
    lastDelta,          \* history: the delta of the last frame
    fired,              \* history: lighthouse -> signals its timer has created
    resizes,            \* history: number of window resize events delivered
    resized,            \* history: lighthouse focused at the last resize, or null
    boatEffects,        \* boat: isReceivingSignal, signalTimer, pulseTimer, activePulses
    stateIsDay,         \* state.isDay
    zoomedView,         \* layers.zoomedView: visible, and the detail view it holds
    fades,              \* gsap's running fade-out tweens of layers.zoomedView
    assets              \* the closure of loadAssets while it runs, or NoRecord

vars == << isZoomed, currentDetailView, container, originalPosition, tweens,
           backButton, time, signalTimer, blinkTimer, currentPointIndex,
           originalY, signals, effects, nextId, ticks, inputs, event, scenario,
           preZoom, screen, points, buoyancyAmplitude, boatSprite, totalTime,
           timeOfDay, isDay, skyAlpha, flips, order, prevTime, lastDelta,
           fired, resizes, resized, boatEffects, stateIsDay, zoomedView,
           fades, assets >>

zoomVars == << isZoomed, currentDetailView, container, originalPosition,
               tweens, backButton, preZoom, zoomedView, fades >>
frameVars == << time, signalTimer, blinkTimer, currentPointIndex, originalY,
                signals, effects, nextId, ticks, boatEffects >>
dayVars == << totalTime, timeOfDay, isDay, skyAlpha, flips, stateIsDay >>
sizeVars == << screen, points, buoyancyAmplitude, boatSprite, resizes,
               resized >>
histVars == << order, prevTime, lastDelta, fired >>

LighthouseX(l) == (ScreenWidth * positions[l].x) \div 100
LighthouseY(l) == (ScreenHeight * positions[l].y) \div 100
\* config.pathPoints.map(p => ({x: width * p.x, y: height * p.y}))
PathPoints(width, height) ==
    [i \in 1 .. Len(pathPoints) |->
        [x |-> (width * pathPoints[i].x) \div 100,
         y |-> (height * pathPoints[i].y) \div 100]]
PathPoint(i) == points[i + 1]
\* boatSprite.width: the unscaled width times scale.x
SpriteWidth(sp) == (sp.local * sp.scale) \div 1000
\* the boat sprite of createBoat: a texture of the given width, scaled to
\* 8% of the screen width; or, with no texture (0), the shape drawn by
\* createSimpleBoat at that width and left unscaled
createSprite(texture, width) ==
    IF texture = 0
    THEN [local |-> (width * 8) \div 100, scale |-> 1000]
    ELSE [local |-> texture,
          scale |-> Quot(((width * 8) \div 100) * 1000, texture)]
\* app.ticker.add(fn): listeners of one priority run in the order added
tickerAdd(listeners, fn) == Append(listeners, fn)
\* the ticker after initApp: initializeDayNightCycle, then ticker.add(gameLoop)
ticker == tickerAdd(tickerAdd(<< >>, "dayNightSystem.update"), "gameLoop")
\* the updates a listener makes, in the order of its statements
Calls(fn) ==
    IF fn = "gameLoop"
    THEN << "time", "map", "lighthouses", "boat", "signals" >>
    ELSE << "dayNight" >>
RECURSIVE FrameOrder(_, _)
FrameOrder(listeners, i) ==
    IF i > Len(listeners) THEN << >>
    ELSE Calls(listeners[i]) \o FrameOrder(listeners, i + 1)

\* the scene that initApp builds once loadAssets has resolved
Scene(sc) ==
    /\ scenario = sc
    /\ isZoomed = FALSE
    /\ currentDetailView = null
    /\ container =
         [e \in Entities |->
            IF e = Boat
            THEN [x |-> (ScreenWidth * startPosition.x) \div 100,
                  y |-> (ScreenHeight * startPosition.y) \div 100,
                  scale |-> 100, rotation |-> 0]
            ELSE [x |-> LighthouseX(e), y |-> LighthouseY(e),
                  scale |-> 100, rotation |-> 0]]
    /\ originalPosition = [e \in Entities |-> NoRecord]
    /\ tweens = << >>
    /\ backButton = "none"
    /\ time = 0
    /\ signalTimer \in [Lighthouses -> sc.timers]
    /\ blinkTimer = [l \in Lighthouses |-> 0]
    /\ currentPointIndex = 0
    /\ originalY = (ScreenHeight * startPosition.y) \div 100
    /\ screen = [width |-> ScreenWidth, height |-> ScreenHeight]
    /\ points = PathPoints(ScreenWidth, ScreenHeight)
    /\ buoyancyAmplitude = (ScreenHeight * 5) \div 1000
    /\ boatSprite \in {createSprite(t, ScreenWidth) : t \in sc.textures}
    /\ totalTime = 0
    /\ timeOfDay = 0
    /\ isDay = TRUE
    /\ skyAlpha = 0
    /\ flips = 0
    /\ order = << >>
    /\ prevTime = 0
    /\ lastDelta = 0
    /\ fired = [l \in Lighthouses |-> 0]
    /\ resizes = 0
    /\ resized = null
    /\ signals = << >>
    /\ effects = << >>
    /\ nextId = 0
    /\ ticks = 0
    /\ inputs = 0
    /\ event = [type |-> "init", entity |-> null]
    /\ preZoom = [e \in Entities |-> NoRecord]
    /\ boatEffects = [isReceivingSignal |-> FALSE, signalTimer |-> 0,
                      pulseTimer |-> 0, activePulses |-> << >>]
    /\ stateIsDay = TRUE
    /\ zoomedView = [visible |-> FALSE, detailView |-> null]
    /\ fades = << >>

\* the running application: the closure of loadAssets is gone
Setup(sc) == Scene(sc) /\ assets = NoRecord

Init == Setup(ZoomScenario)
InitSignals == Setup(SignalScenario)
InitFair == Setup(FairScenario)

(***************************************************************************)
(* gsap.to(target, {..., duration: 1}).  A tween takes its start values    *)
(* from the target when it first renders, and every gsap tick renders the  *)
(* running tweens in the order of their creation (overwrite is false by    *)
(* default), so of two tweens of one property the younger one wins.        *)
(***************************************************************************)
gsapTo(target, to, kind) ==
    [target |-> target, to |-> to, from |-> NoRecord, p |-> 0, kind |-> kind]

TweenStart(tw, c) == IF tw.from = NoRecord THEN c[tw.target] ELSE tw.from

TweenRender(tw, c) ==
    LET s == TweenStart(tw, c)
        p == tw.p + 1
    IN  [c EXCEPT ![tw.target] =
            [k \in Props |->
                IF k \in DOMAIN tw.to
                THEN s[k] + ((tw.to[k] - s[k]) * p) \div TweenSteps
                ELSE c[tw.target][k]]]

RECURSIVE RenderAll(_, _, _)
RenderAll(tws, i, c) ==
    IF i > Len(tws) THEN c ELSE RenderAll(tws, i + 1, TweenRender(tws[i], c))

RECURSIVE AdvanceAll(_, _, _)
AdvanceAll(tws, i, c) ==
    IF i > Len(tws) THEN << >>
    ELSE LET tw == tws[i]
             adv == [tw EXCEPT !.from = TweenStart(tw, c), !.p = tw.p + 1]
             rest == AdvanceAll(tws, i + 1, TweenRender(tw, c))
         IN  IF adv.p >= TweenSteps THEN rest ELSE << adv >> \o rest

\* gsap ticks a half-second tween takes
FadeSteps == Ceil(TweenSteps, 2)
\* gsap.to(zoomedContainer, {alpha: 0, duration: 0.5, onComplete}); removes
\* tells whether onComplete calls removeChildren() after hiding the layer.
\* The model does not hold alpha values, so the fade-in of zoomTo..., which
\* has no callback, leaves no trace in it.
gsapFade(removes) == [p |-> 0, removes |-> removes]
\* the fades that end in this gsap tick
Ending(fs) == {i \in 1 .. Len(fs) : fs[i].p + 1 >= FadeSteps}

(***************************************************************************)
(* Zoom coordinator.                                                       *)
(***************************************************************************)
\* a zoomToLighthouse that stores the scale it zooms to
zoomToLighthouse_StoresTarget(l) ==
    /\ isZoomed' = TRUE
    /\ currentDetailView' = l
    /\ originalPosition' =
         [originalPosition EXCEPT ![l] =
            [x |-> container[l].x, y |-> container[l].y,
             scale |-> container[l].scale * 2]]
    /\ backButton' = "lighthouse"
    /\ tweens' = Append(tweens,
         gsapTo(l, [x |-> screen.width \div 2,
                    y |-> screen.height \div 2 - 500,
                    scale |-> container[l].scale * 2], "zoom"))
    /\ preZoom' = [preZoom EXCEPT ![l] = container[l]]
    /\ zoomedView' = [visible |-> TRUE, detailView |-> l]
    /\ UNCHANGED << container, fades >>

zoomToLighthouse(l) ==
    /\ isZoomed' = TRUE
    /\ currentDetailView' = l
    /\ originalPosition' =
         [originalPosition EXCEPT ![l] =
            [x |-> container[l].x, y |-> container[l].y,
             scale |-> container[l].scale]]
    /\ backButton' = "lighthouse"
    /\ tweens' = Append(tweens,
         gsapTo(l, [x |-> screen.width \div 2,
                    y |-> screen.height \div 2 - 500,
                    scale |-> container[l].scale * 2], "zoom"))
    /\ preZoom' = [preZoom EXCEPT ![l] = container[l]]
    /\ zoomedView' = [visible |-> TRUE, detailView |-> l]
    /\ UNCHANGED << container, fades >>

zoomToBoat ==
    /\ isZoomed' = TRUE
    /\ currentDetailView' = Boat
    /\ originalPosition' =
         [originalPosition EXCEPT ![Boat] =
            [x |-> container[Boat].x, y |-> container[Boat].y,
             scale |-> container[Boat].scale,
             rotation |-> container[Boat].rotation]]
    /\ backButton' = "boat"
    /\ tweens' = Append(tweens,
         gsapTo(Boat, [x |-> screen.width \div 2,
                       y |-> screen.height \div 2 - 500,
                       scale |-> 200, rotation |-> 0], "zoom"))
    /\ preZoom' = [preZoom EXCEPT ![Boat] = container[Boat]]
    /\ zoomedView' = [visible |-> TRUE, detailView |-> Boat]
    /\ UNCHANGED << container, fades >>

\* a pointerdown handler that does not look at state.isZoomed
pointerdown_Unguarded(e) ==
    IF e = Boat THEN zoomToBoat ELSE zoomToLighthouse(e)

\* the pointerdown handlers of the entity containers
pointerdown(e) ==
    IF ~isZoomed
    THEN IF e = Boat THEN zoomToBoat ELSE zoomToLighthouse(e)
    ELSE UNCHANGED zoomVars

\* an exitDetailView that leaves state.currentDetailView set
ExitInteractions_KeepsView ==
    IF ~isZoomed \/ currentDetailView = null
    THEN UNCHANGED zoomVars
    ELSE LET e == currentDetailView
             o == originalPosition[e]
         IN  /\ tweens' = Append(tweens,
                   gsapTo(e, [x |-> o.x, y |-> o.y, scale |-> o.scale,
                              rotation |-> 0], "exit"))
             /\ fades' = Append(fades, gsapFade(TRUE))
             /\ isZoomed' = FALSE
             /\ UNCHANGED << currentDetailView, container, originalPosition,
                             backButton, preZoom, zoomedView >>

\* an exitDetailView that does not return the scale
ExitLighthouse_KeepsScale ==
    IF ~isZoomed \/ currentDetailView = null
    THEN UNCHANGED zoomVars
    ELSE LET e == currentDetailView
             o == originalPosition[e]
         IN  /\ tweens' = Append(tweens,
                   gsapTo(e, [x |-> o.x, y |-> o.y], "exit"))
             /\ fades' = Append(fades, gsapFade(FALSE))
             /\ isZoomed' = FALSE
             /\ currentDetailView' = null
             /\ UNCHANGED << container, originalPosition, backButton, preZoom,
                             zoomedView >>

\* exitDetailView of lighthouse.js
ExitLighthouse ==
    IF ~isZoomed \/ currentDetailView = null
    THEN UNCHANGED zoomVars
    ELSE LET e == currentDetailView
             o == originalPosition[e]
         IN  /\ tweens' = Append(tweens,
                   gsapTo(e, [x |-> o.x, y |-> o.y, scale |-> o.scale], "exit"))
             /\ fades' = Append(fades, gsapFade(FALSE))
             /\ isZoomed' = FALSE
             /\ currentDetailView' = null
             /\ UNCHANGED << container, originalPosition, backButton, preZoom,
                             zoomedView >>

\* exitDetailView of boat.js
ExitBoat ==
    IF ~isZoomed \/ currentDetailView = null
    THEN UNCHANGED zoomVars
    ELSE LET e == currentDetailView
             o == originalPosition[e]
         IN  /\ tweens' = Append(tweens,
                   gsapTo(e, [k \in DOMAIN o |-> o[k]], "exit"))
             /\ fades' = Append(fades, gsapFade(TRUE))
             /\ isZoomed' = FALSE
             /\ currentDetailView' = null
             /\ UNCHANGED << container, originalPosition, backButton, preZoom,
                             zoomedView >>

\* exitDetailView of interactions.js
ExitInteractions ==
    IF ~isZoomed \/ currentDetailView = null
    THEN UNCHANGED zoomVars
    ELSE LET e == currentDetailView
             o == originalPosition[e]
         IN  /\ tweens' =
                   IF o # NoRecord
                   THEN Append(tweens,
                          gsapTo(e, [x |-> o.x, y |-> o.y, scale |-> o.scale,
                                     rotation |->
                                        IF "rotation" \in DOMAIN o
                                        THEN o.rotation ELSE 0], "exit"))
                   ELSE tweens
             /\ fades' = Append(fades, gsapFade(TRUE))
             /\ isZoomed' = FALSE
             /\ currentDetailView' = null
             /\ UNCHANGED << container, originalPosition, backButton, preZoom,
                             zoomedView >>

(***************************************************************************)
(* User events.                                                            *)
(***************************************************************************)
Select(e) ==
    /\ inputs < scenario.inputs
    /\ inputs' = inputs + 1
    /\ event' = [type |-> "select", entity |-> e]
    /\ pointerdown(e)
    /\ UNCHANGED << frameVars, dayVars, sizeVars, histVars, scenario, assets >>

BackButton ==
    /\ inputs < scenario.inputs
    /\ backButton # "none"
    /\ zoomedView.visible
    /\ inputs' = inputs + 1
    /\ event' = [type |-> "back", entity |-> null]
    /\ IF backButton = "lighthouse" THEN ExitLighthouse ELSE ExitBoat
    /\ UNCHANGED << frameVars, dayVars, sizeVars, histVars, scenario, assets >>

Escape ==
    /\ inputs < scenario.inputs
    /\ inputs' = inputs + 1
    /\ event' = [type |-> "escape", entity |-> null]
    /\ IF isZoomed /\ currentDetailView # null
       THEN ExitInteractions
       ELSE UNCHANGED zoomVars
    /\ UNCHANGED << frameVars, dayVars, sizeVars, histVars, scenario, assets >>

\* one tick of gsap's ticker
GsapTick ==
    /\ tweens # << >> \/ fades # << >>
    /\ container' = RenderAll(tweens, 1, container)
    /\ tweens' = AdvanceAll(tweens, 1, container)
    /\ fades' = SelectSeq([i \in 1 .. Len(fades) |->
                              [fades[i] EXCEPT !.p = fades[i].p + 1]],
                          LAMBDA f : f.p < FadeSteps)
    /\ LET removing == \E i \in Ending(fades) : fades[i].removes
       IN  /\ zoomedView' =
                 IF Ending(fades) = {} THEN zoomedView
                 ELSE [visible |-> FALSE,
                       detailView |-> IF removing THEN null
                                      ELSE zoomedView.detailView]
           /\ backButton' = IF removing THEN "none" ELSE backButton
    /\ UNCHANGED << isZoomed, currentDetailView, originalPosition, preZoom,
                    inputs, event >>
    /\ UNCHANGED << frameVars, dayVars, sizeVars, histVars, scenario, assets >>

(***************************************************************************)
(* Signals (signal.js) and the frame loop (main.js).                       *)
(* The fields born, n, d0 and same of a Signal are history: the frame it   *)
(* was constructed in, the number of update calls it has received, the     *)
(* delta of the first of them and whether all of them had that delta.      *)
(***************************************************************************)
Signal(startX, startY, endX, endY, speed) ==
    [startX |-> startX, startY |-> startY, endX |-> endX, endY |-> endY,
     speed |-> speed, progress |-> 0,
     born |-> ticks + 1, n |-> 0, d0 |-> -1, same |-> TRUE]

\* a Signal.update that advances at half the speed
SignalUpdate_HalfSpeed(s, delta) ==
    [s EXCEPT !.progress = s.progress + (s.speed * delta) \div 2,
              !.n = s.n + 1,
              !.d0 = IF s.n = 0 THEN delta ELSE s.d0,
              !.same = s.same /\ (s.n = 0 \/ s.d0 = delta)]

\* Signal.update: the new object; it is complete when progress >= 100
SignalUpdate(s, delta) ==
    [s EXCEPT !.progress = s.progress + s.speed * delta,
              !.n = s.n + 1,
              !.d0 = IF s.n = 0 THEN delta ELSE s.d0,
              !.same = s.same /\ (s.n = 0 \/ s.d0 = delta)]

\* lighthouse.createSignal(boat): the Signal object, added to layers.effects
createSignal(l, c) ==
    Signal(c[l].x, c[l].y + lightY, c[Boat].x, c[Boat].y - 200, signalSpeed)

Put(f, id, s) == [i \in DOMAIN f \cup {id} |-> IF i = id THEN s ELSE f[i]]
Drop(f, id) == [i \in DOMAIN f \ {id} |-> f[i]]

\* a timer that fires whatever state.isZoomed is
TimerFires_AlsoZoomed(l, delta) == signalTimer[l] + delta >= signalRate

\* lighthouse.update, the signal timer part
TimerFires(l, delta) == signalTimer[l] + delta >= signalRate /\ ~isZoomed

\* updateLighthouses: the effects layer and the id counter after lighthouse l
RECURSIVE updateLighthouses(_, _, _, _, _)
updateLighthouses(l, delta, c, eff, id) ==
    IF l > NumLighthouses THEN [effects |-> eff, nextId |-> id]
    ELSE IF TimerFires(l, delta)
         THEN updateLighthouses(l + 1, delta, c,
                                Put(eff, id, createSignal(l, c)), id + 1)
         ELSE updateLighthouses(l + 1, delta, c, eff, id)

\* a followPath that passes over the next waypoint when it arrives
followPath_SkipsPoint(bt, idx, delta) ==
    LET targetPoint == PathPoint(idx)
        dx == targetPoint.x - bt.x
        dy == targetPoint.y - bt.y
        distance == Sqrt(dx * dx + dy * dy)
    IN  IF distance < 30
        THEN [boat |-> bt, idx |-> (idx + 2) % Len(pathPoints)]
        ELSE [boat |-> bt, idx |-> idx]

\* boat.followPath
followPath(bt, idx, delta) ==
    LET targetPoint == PathPoint(idx)
        dx == targetPoint.x - bt.x
        dy == targetPoint.y - bt.y
        distance == Sqrt(dx * dx + dy * dy)
    IN  IF distance < 30
        THEN [boat |-> bt, idx |-> (idx + 1) % Len(pathPoints)]
        ELSE LET targetRotation == Atan2(dy, dx)
                 rotationDifference ==
                     NormalizeAngle(targetRotation - bt.rotation)
             IN  [boat |->
                    [bt EXCEPT
                       !.x = bt.x + Quot(dx * boatSpeed * delta, distance),
                       !.y = bt.y + Quot(dy * boatSpeed * delta, distance),
                       !.rotation = bt.rotation +
                          Quot(rotationDifference * rotationSpeed * delta, 100)],
                  idx |-> idx]

\* boat.applyPhysics; buoyancyOffset is the sine composite, in hundredths
applyPhysics(bt, buoyancyOffset, delta) ==
    LET floated ==
          [bt EXCEPT !.y = originalY +
                             Quot(buoyancyOffset * buoyancyAmplitude, 100)]
    IN  IF windIntensity > 0
        THEN [floated EXCEPT !.x = floated.x + Quot(windIntensity * delta, 100)]
        ELSE floated

\* boat.createSignalPulse: a PulseSignal of 60 frames, its timer at 0
createSignalPulse(b) == [b EXCEPT !.activePulses = Append(@, 0)]

\* boat.receiveSignal; no statement of the repository calls it
receiveSignal(b) ==
    createSignalPulse([b EXCEPT !.isReceivingSignal = TRUE, !.signalTimer = 0])

\* boat.updateSignalEffects
updateSignalEffects(b, delta) ==
    LET received ==
          IF b.isReceivingSignal
          THEN LET timed == [b EXCEPT !.signalTimer = @ + delta,
                                      !.pulseTimer = @ + delta]
                   pulsed == IF timed.pulseTimer > 30
                             THEN createSignalPulse(
                                      [timed EXCEPT !.pulseTimer = 0])
                             ELSE timed
               IN  [pulsed EXCEPT
                       !.isReceivingSignal = ~(timed.signalTimer > 120)]
          ELSE b
    IN  [received EXCEPT
           !.activePulses =
               SelectSeq([i \in 1 .. Len(@) |-> @[i] + delta],
                         LAMBDA timer : timer < 60)]

\* the same loop running forward: for (i = 0; i < length; i++) ... splice(i, 1)
RECURSIVE ForwardFrom(_, _, _, _)
ForwardFrom(i, sigs, eff, delta) ==
    IF i > Len(sigs) THEN [signals |-> sigs, effects |-> eff]
    ELSE LET id == sigs[i]
             s == SignalUpdate(eff[id], delta)
         IN  IF s.progress >= 100
             THEN ForwardFrom(i + 1, Splice(sigs, i), Drop(eff, id), delta)
             ELSE ForwardFrom(i + 1, sigs, Put(eff, id, s), delta)
updateLoop_Forward(i, sigs, eff, delta) == ForwardFrom(1, sigs, eff, delta)

\* the loop of updateSignals: for (i = length - 1; i >= 0; i--) ... splice(i, 1)
RECURSIVE updateLoop(_, _, _, _)
updateLoop(i, sigs, eff, delta) ==
    IF i < 1 THEN [signals |-> sigs, effects |-> eff]
    ELSE LET id == sigs[i]
             s == SignalUpdate(eff[id], delta)
         IN  IF s.progress >= 100
             THEN updateLoop(i - 1, Splice(sigs, i), Drop(eff, id), delta)
             ELSE updateLoop(i - 1, sigs, Put(eff, id, s), delta)

\* updateSignals: spawn is Math.random() < 0.01, k the lighthouse drawn
updateSignals(sigs, eff, id, c, delta, spawn, k) ==
    LET done == updateLoop(Len(sigs), sigs, eff, delta)
    IN  IF ~isZoomed /\ spawn
        THEN [signals |-> Append(done.signals, id),
              effects |-> Put(done.effects, id, createSignal(k, c)),
              nextId |-> id + 1]
        ELSE [signals |-> done.signals, effects |-> done.effects,
              nextId |-> id]

\* a state.time that advances by at most 50 a frame
advanceTime_Clamped(t, delta) == t + (IF delta > 50 THEN 50 ELSE delta)

\* state.time += delta
advanceTime(t, delta) == t + delta

\* a day test against the whole cycle: timeOfDay < 1
newIsDay_WholeCycle(tod) == tod < totalDuration

\* timeOfDay < dayTransitionPoint, both times totalDuration
newIsDay(tod) == tod < dayDuration

\* an update that never writes state.isDay
sharedIsDay_Stale(day, prev, shared) == shared

\* state.isDay after update: written only when isDay changes
sharedIsDay(day, prev, shared) == IF day # prev THEN day ELSE shared

\* dayNightSystem.updateSkyColor: the alpha of the sky overlay, in
\* thousandths.  By day dayPosition is tod / dayDuration and the relative
\* transition length is transitionDuration / dayDuration.
updateSkyColor(tod, day) ==
    IF day
    THEN IF tod < transitionDuration
         THEN 500 - (tod * 500) \div transitionDuration
         ELSE IF tod > dayDuration - transitionDuration
              THEN ((tod - (dayDuration - transitionDuration)) * 500)
                       \div transitionDuration
              ELSE 0
    ELSE 700

\* dayNightSystem.update, the ticker's first listener
dayNightUpdate(delta) ==
    LET total == totalTime + delta
        tod == total % totalDuration
        day == newIsDay(tod)
    IN  /\ totalTime' = total
        /\ timeOfDay' = tod
        /\ isDay' = day
        /\ stateIsDay' = sharedIsDay(day, isDay, stateIsDay)
        /\ flips' = IF day # isDay THEN flips + 1 ELSE flips
        /\ skyAlpha' = updateSkyColor(tod, day)

\* state.dayNightCycle: the state object has no such field and initApp
\* drops what initializeDayNightCycle returns
dayNightCycle == null

\* dayNightSystem.setTimeOfDay(t), t in thousandths, with the update(0) it
\* forces; shared is state.isDay at the call
setTimeOfDay(t, shared) ==
    LET total == (t * totalDuration) \div 1000
        tod == total % totalDuration
        day == newIsDay(tod)
    IN  /\ totalTime' = total
        /\ timeOfDay' = tod
        /\ isDay' = day
        /\ stateIsDay' = sharedIsDay(day, isDay, shared)
        /\ flips' = IF day # isDay THEN flips + 1 ELSE flips
        /\ skyAlpha' = updateSkyColor(tod, day)

\* state.isDay = !state.isDay; setTimeOfDay(state.isDay ? 0.2 : 0.7)
pressT == setTimeOfDay(IF ~stateIsDay THEN 200 ELSE 700, ~stateIsDay)

\* a 't' key whose handler finds the day/night system
toggleKey_Wired == pressT

\* case 't' of the keydown listener
toggleKey == IF dayNightCycle # null THEN pressT ELSE UNCHANGED dayVars

\* a keydown event of the 't' key
ToggleKey ==
    /\ inputs < scenario.inputs
    /\ inputs' = inputs + 1
    /\ event' = [type |-> "t", entity |-> null]
    /\ toggleKey
    /\ UNCHANGED << zoomVars, frameVars, sizeVars, histVars, scenario, assets >>

gameLoop(delta, spawn, k, buoyancyOffset) ==
    /\ ticks < scenario.ticks
    /\ ticks' = ticks + 1
    /\ time' = advanceTime(time, delta)
    /\ prevTime' = time
    /\ lastDelta' = delta
    /\ order' = FrameOrder(ticker, 1)
    /\ fired' =
         [l \in Lighthouses |->
            IF TimerFires(l, delta) THEN fired[l] + 1 ELSE fired[l]]
    /\ blinkTimer' =
         [l \in Lighthouses |->
            IF blinkTimer[l] + delta >= blinkRate THEN 0
            ELSE blinkTimer[l] + delta]
    /\ signalTimer' =
         [l \in Lighthouses |->
            IF TimerFires(l, delta) THEN 0 ELSE signalTimer[l] + delta]
    /\ LET lh == updateLighthouses(1, delta, container, effects, nextId)
           fp == followPath(container[Boat], currentPointIndex, delta)
           bt == applyPhysics(fp.boat, buoyancyOffset, delta)
           c == [container EXCEPT ![Boat] = bt]
           us == updateSignals(signals, lh.effects, lh.nextId, c,
                               delta, spawn, k)
       IN  /\ container' = c
           /\ currentPointIndex' = fp.idx
           /\ boatEffects' = updateSignalEffects(boatEffects, delta)
           /\ signals' = us.signals
           /\ effects' = us.effects
           /\ nextId' = us.nextId
    /\ UNCHANGED << isZoomed, currentDetailView, originalPosition, tweens,
                    backButton, preZoom, zoomedView, fades, originalY, inputs,
                    event, scenario, sizeVars, assets >>

\* one frame of the application's ticker: its listeners, in order
Tick ==
    \E delta \in scenario.deltas, spawn \in scenario.spawns,
       k \in scenario.sources,
       buoyancyOffset \in scenario.offsets :
        /\ dayNightUpdate(delta)
        /\ gameLoop(delta, spawn, k, buoyancyOffset)

(***************************************************************************)
(* Window resize.  main.js adds handleResize to the window's resize event  *)
(* when the module is evaluated; renderer.js adds onResize later, from     *)
(* initApp.  The listeners run in that order, so handleResize reads        *)
(* app.screen before onResize has resized the renderer.                    *)
(***************************************************************************)
\* the fields of the boat that boat.resize reads or writes
BoatState ==
    [points |-> points, currentPointIndex |-> currentPointIndex,
     originalY |-> originalY, buoyancyAmplitude |-> buoyancyAmplitude,
     boatSprite |-> boatSprite, position |-> container[Boat]]

\* boat.resize(width, height)
boatResize(b, width, height) ==
    LET pts == PathPoints(width, height)
    IN  [b EXCEPT
           !.points = pts,
           !.originalY = pts[b.currentPointIndex + 1].y,
           !.buoyancyAmplitude = (height * 5) \div 1000,
           !.boatSprite.scale =
               Quot(((width * 8) \div 100) * 1000, SpriteWidth(b.boatSprite))]

\* lighthouse.resize(width, height) on the container c of lighthouse l
lighthouseResize(c, l, width, height) ==
    [c EXCEPT !.x = (width * positions[l].x) \div 100,
              !.y = (height * positions[l].y) \div 100]

\* handleResize of main.js
handleResize ==
    LET b == boatResize(BoatState, screen.width, screen.height)
    IN  /\ container' =
              [e \in Entities |->
                 IF e \in Lighthouses
                 THEN lighthouseResize(container[e], e,
                                       screen.width, screen.height)
                 ELSE container[e]]
        /\ points' = b.points
        /\ originalY' = b.originalY
        /\ buoyancyAmplitude' = b.buoyancyAmplitude
        /\ boatSprite' = b.boatSprite

\* a resize event of the window, whose inner size is now width x height
Resize(width, height) ==
    /\ resizes < scenario.resizes
    /\ resizes' = resizes + 1
    /\ resized' = IF isZoomed /\ currentDetailView \in Lighthouses
                  THEN currentDetailView ELSE null
    /\ handleResize
    /\ screen' = [width |-> width, height |-> height]
    /\ UNCHANGED << isZoomed, currentDetailView, originalPosition, tweens,
                    backButton, preZoom, zoomedView, fades, inputs, event,
                    scenario, time, signalTimer, blinkTimer, currentPointIndex,
                    signals, effects, nextId, ticks, boatEffects, dayVars,
                    histVars, assets >>

ResizeWindow == \E s \in scenario.sizes : Resize(s.width, s.height)

SelectEntity == \E e \in scenario.selectable : Select(e)

Next ==
    \/ SelectEntity
    \/ BackButton
    \/ Escape
    \/ GsapTick
    \/ Tick

Spec == Init /\ [][Next]_vars
SpecSignals == InitSignals /\ [][Next]_vars

TypeOK ==
    /\ isZoomed \in BOOLEAN
    /\ currentDetailView \in Entities \cup {null}
    /\ inputs \in 0 .. scenario.inputs
    /\ ticks \in 0 .. scenario.ticks

\* gsap's ticker runs on every animation frame while a tween is running
SpecFair == InitFair /\ [][Next]_vars /\ WF_vars(GsapTick)

\* the resize scenario: the window is resized, before or during a focus
InitResize == Setup(ResizeScenario)
NextResize ==
    \/ SelectEntity
    \/ BackButton
    \/ Escape
    \/ GsapTick
    \/ Tick
    \/ ResizeWindow
SpecResize == InitResize /\ [][NextResize]_vars

\* the day/night scenario: frames of one delta, no user event
InitDay == \E d \in DayDeltas : Setup(DayScenario(d))
SpecDay == InitDay /\ [][Tick]_vars

\* the timer scenario: frames of one delta, no user event
InitTimer == \E d \in TimerDeltas : Setup(TimerScenario(d))
SpecTimer == InitTimer /\ [][Tick]_vars

(***************************************************************************)
(* assetLoader.js.  The record assets is the closure of one loadAssets     *)
(* call: the branch taken, the state of every request ("idle" before it is *)
(* started, "loading", then "loaded" or "failed"), whether the callback of *)
(* loader.load has run, loadedCount, totalAssets and the promise.          *)
(***************************************************************************)
\* onAssetLoaded
onAssetLoaded(a) ==
    LET counted == [a EXCEPT !.loadedCount = @ + 1]
    IN  IF counted.loadedCount = counted.totalAssets
        THEN [counted EXCEPT !.promise = "resolved"]
        ELSE counted

RECURSIVE Repeat(_, _)
\* n calls of onAssetLoaded in a row
Repeat(a, n) == IF n = 0 THEN a ELSE Repeat(onAssetLoaded(a), n - 1)

\* the executor of the promise of loadAssets, up to its return
loadAssets(branch, assetConfig) ==
    LET totalAssets == Cardinality(assetConfig.images)
                         + Cardinality(assetConfig.spritesheets)
                         + Cardinality(assetConfig.audio)
        closure(img, sheets, aud) ==
            [branch |-> branch,
             images |-> [k \in assetConfig.images |-> img],
             spritesheets |-> [k \in assetConfig.spritesheets |-> sheets],
             audio |-> [k \in assetConfig.audio |-> aud],
             called |-> FALSE, loadedCount |-> 0,
             totalAssets |-> totalAssets, promise |-> "pending"]
    IN  IF totalAssets = 0
        THEN [closure("idle", "idle", "idle") EXCEPT !.promise = "resolved"]
        ELSE IF branch = "PIXI.Loader"
        THEN closure("loading", "loading", "idle")
        ELSE IF branch = "PIXI.Assets"
        THEN closure("loading", "loading", "loading")
        ELSE Repeat(closure("loading", "loaded", "loading"),
                    Cardinality(assetConfig.spritesheets))

Outcomes == {"loaded", "failed"}

\* an image request settles: a resource of the shared loader, or the then
\* or catch of PIXI.Assets.load or loadImageManually
ImageSettles(key, outcome) ==
    /\ assets # NoRecord
    /\ key \in DOMAIN assets.images
    /\ assets.images[key] = "loading"
    /\ LET settled == [assets EXCEPT !.images[key] = outcome]
       IN  assets' = IF assets.branch = "PIXI.Loader" THEN settled
                     ELSE onAssetLoaded(settled)

\* a spritesheet request settles
SpritesheetSettles(key, outcome) ==
    /\ assets # NoRecord
    /\ key \in DOMAIN assets.spritesheets
    /\ assets.spritesheets[key] = "loading"
    /\ LET settled == [assets EXCEPT !.spritesheets[key] = outcome]
       IN  assets' = IF assets.branch = "PIXI.Loader" THEN settled
                     ELSE onAssetLoaded(settled)

\* the callback of loader.load, called once every resource has settled
LoaderComplete ==
    /\ assets # NoRecord
    /\ assets.branch = "PIXI.Loader"
    /\ assets.totalAssets > 0
    /\ ~assets.called
    /\ \A k \in DOMAIN assets.images : assets.images[k] \in Outcomes
    /\ \A k \in DOMAIN assets.spritesheets :
          assets.spritesheets[k] \in Outcomes
    /\ assets' =
         [assets EXCEPT
            !.called = TRUE,
            !.audio = [k \in DOMAIN assets.audio |-> "loading"],
            !.promise = IF DOMAIN assets.audio = {} THEN "resolved" ELSE @]

\* loadAudioFiles: canplaythrough or error of one audio element
AudioSettles(key, outcome) ==
    /\ assets # NoRecord
    /\ key \in DOMAIN assets.audio
    /\ assets.audio[key] = "loading"
    /\ assets' = onAssetLoaded([assets EXCEPT !.audio[key] = outcome])

loaderVars == << zoomVars, frameVars, dayVars, sizeVars, histVars, inputs,
                 event, scenario >>

ImageEvent ==
    \E key \in 1 .. MaxImages, outcome \in Outcomes :
        ImageSettles(key, outcome) /\ UNCHANGED loaderVars
SpritesheetEvent ==
    \E key \in 1 .. MaxSpritesheets, outcome \in Outcomes :
        SpritesheetSettles(key, outcome) /\ UNCHANGED loaderVars
LoaderCallback == LoaderComplete /\ UNCHANGED loaderVars
AudioEvent ==
    \E key \in 1 .. MaxAudio, outcome \in Outcomes :
        AudioSettles(key, outcome) /\ UNCHANGED loaderVars

\* initApp awaiting loadAssets(CONFIG.assets, app); the scene variables hold
\* the values the scene is created with afterwards
InitLoader ==
    /\ Scene(LoaderScenario)
    /\ assets \in {loadAssets(b, cfg) :
                      b \in LoaderScenario.branches,
                      cfg \in LoaderScenario.configs}
NextLoader ==
    \/ ImageEvent
    \/ SpritesheetEvent
    \/ LoaderCallback
    \/ AudioEvent
\* every request that was started loads or fails, and the loader calls back
SpecLoader == InitLoader /\ [][NextLoader]_vars /\ WF_vars(NextLoader)

\* every configured asset has loaded or failed
AllSettled ==
    /\ assets # NoRecord
    /\ \A k \in DOMAIN assets.images : assets.images[k] \in Outcomes
    /\ \A k \in DOMAIN assets.spritesheets :
          assets.spritesheets[k] \in Outcomes
    /\ \A k \in DOMAIN assets.audio : assets.audio[k] \in Outcomes

\* the round-trip scenario: selections and back-actions between gsap ticks
InitRoundTrip == Setup(RoundTripScenario)
NextRoundTrip ==
    \/ SelectEntity
    \/ BackButton
    \/ Escape
    \/ GsapTick
SpecRoundTrip == InitRoundTrip /\ [][NextRoundTrip]_vars

\* the key scenario: frames of one delta and presses of the 't' key
InitKey == \E d \in DayDeltas : Setup(KeyScenario(d))
NextKey ==
    \/ Tick
    \/ ToggleKey
SpecKey == InitKey /\ [][NextKey]_vars

\* the patrol scenario: the ticker runs its listeners on every animation
\* frame, no user event
InitPatrol == \E d \in PatrolDeltas : Setup(PatrolScenario(d))
SpecPatrol == InitPatrol /\ [][Tick]_vars /\ WF_vars(Tick)

(***************************************************************************)
(* Properties.                                                             *)
(***************************************************************************)
ExitRunning(e) ==
    \E i \in 1 .. Len(tweens) : tweens[i].target = e /\ tweens[i].kind = "exit"
ZoomRunning(e) ==
    \E i \in 1 .. Len(tweens) : tweens[i].target = e /\ tweens[i].kind = "zoom"
\* this step delivers the user event of the given type
Delivers(type) == inputs' = inputs + 1 /\ event'.type = type
\* ids of the Signal objects that have been destroyed
Completed == (0 .. nextId - 1) \ DOMAIN effects

\* C1: in every reachable state state.isZoomed is true exactly when
\* state.currentDetailView is an entity, and at most one entity is focused.
C1_ZoomedIffFocused ==
    /\ isZoomed <=> currentDetailView # null
    /\ currentDetailView \in Entities \cup {null}
    /\ Cardinality({e \in Entities : currentDetailView = e}) <= 1
\* an entity selected again after a back-action, while animations are running
C1_Witness ==
    /\ isZoomed
    /\ inputs >= 3
    /\ \E e \in Entities : ExitRunning(e)

C4_RecordKept ==
    [][\A e \in Entities :
         ExitRunning(e) => originalPosition'[e] = originalPosition[e]]_vars

\* C5: while the reverse animation of an entity is running isZoomed is still
\* true and that entity is still the focused one.
C5_ZoomedUntilExitDone ==
    \A e \in Entities : ExitRunning(e) => (isZoomed /\ currentDetailView = e)

\* C6: a selection delivered while isZoomed is true, and a back-action
\* delivered while isZoomed is false, change neither isZoomed, the focused
\* entity, the stored records, the transforms nor the running tweens.
C6_InvalidTransitionNoOp ==
    [][((Delivers("select") /\ isZoomed)
          \/ (Delivers("back") /\ ~isZoomed)
          \/ (Delivers("escape") /\ ~isZoomed))
         => UNCHANGED << isZoomed, currentDetailView, originalPosition,
                         container, tweens, backButton >>]_vars
\* a selection of another entity was delivered while zoomed, and ignored
C6_Witness ==
    /\ event.type = "select"
    /\ isZoomed
    /\ currentDetailView # event.entity

\* C7: a frame that runs while isZoomed is true constructs no Signal.
C7_NoSignalWhileZoomed ==
    [][(ticks' = ticks + 1 /\ isZoomed) => nextId' = nextId]_vars
\* zoomed, with a signal timer that has run past its period
C7_Witness ==
    /\ isZoomed
    /\ ticks > 0
    /\ \E l \in Lighthouses : signalTimer[l] >= signalRate

\* C8: every Signal object that exists is an element of state.signals.
C8_AllSignalsListed ==
    \A id \in DOMAIN effects : id \in Range(signals)

\* C9: between frames no Signal of state.signals is complete, and every
\* Signal of the list has been updated exactly once in each frame since the
\* one it was constructed in.
C9_CompleteRemovedSameTick ==
    /\ \A i \in 1 .. Len(signals) :
          /\ signals[i] \in DOMAIN effects
          /\ effects[signals[i]].progress < 100
          /\ effects[signals[i]].n = ticks - effects[signals[i]].born
    /\ \A i, j \in 1 .. Len(signals) : signals[i] = signals[j] => i = j
\* a Signal has been destroyed in a frame that also updated a younger one
C9_Witness ==
    /\ Completed # {}
    /\ \E i \in 1 .. Len(signals) : effects[signals[i]].n >= 1

TargetDistance ==
    LET dx == PathPoint(currentPointIndex).x - container[Boat].x
        dy == PathPoint(currentPointIndex).y - container[Boat].y
    IN  Sqrt(dx * dx + dy * dy)

\* C11: currentPointIndex is always an index of path.points, and a frame
\* leaves it alone or, only when the boat is within 3 pixels of the waypoint,
\* advances it by exactly one modulo the number of points, whatever delta is.
C11_IndexStepsByOne ==
    /\ [](currentPointIndex \in 0 .. Len(points) - 1)
    /\ [][\/ currentPointIndex' = currentPointIndex
          \/ /\ currentPointIndex' = (currentPointIndex + 1) % Len(points)
             /\ TargetDistance < 30
             /\ ticks' = ticks + 1]_vars
\* the index has advanced once and later frames, of a large delta, kept it
C11_Witness ==
    /\ currentPointIndex = 1
    /\ ticks > 2
    /\ lastDelta >= 450
    /\ TargetDistance >= 30

\* C12: after any number of frames of one delta, isZoomed false throughout,
\* the timer of a lighthouse has created floor(t / signalRate) signals, give
\* or take one, where t is the time those frames have covered.
C12_TimerCount ==
    \A l \in Lighthouses :
        /\ fired[l] >= time \div signalRate - 1
        /\ fired[l] <= time \div signalRate + 1

C14_SkyContinuous ==
    [][(ticks' = ticks + 1 /\ ticks >= 1)
         => Abs(skyAlpha' - skyAlpha)
               <= Ceil(500 * lastDelta', transitionDuration)]_vars

\* C15: the updates of a frame run in this order: elapsed time, map,
\* lighthouses, boat, signals and, last, the day/night phase.
C15_UpdateOrder ==
    ticks > 0 =>
        order = << "time", "map", "lighthouses", "boat", "signals",
                   "dayNight" >>

C17_ResizeKeepsFocus ==
    [][(resizes' = resizes + 1 /\ isZoomed /\ currentDetailView # null
          /\ ~ZoomRunning(currentDetailView))
         => LET e == currentDetailView
            IN  /\ container'[e].x = container[e].x
                /\ container'[e].y = container[e].y
                /\ container'[e].scale = container[e].scale]_vars

\* C18: when the window has been resized to (w, h) while a lighthouse was
\* focused and the exit animation is over, every lighthouse is at
\* (w * pos.x, h * pos.y).
C18_ResizeThenExit ==
    (resized # null /\ ~isZoomed /\ tweens = << >>)
        => \A l \in Lighthouses :
              /\ container[l].x = (screen.width * positions[l].x) \div 100
              /\ container[l].y = (screen.height * positions[l].y) \div 100

\* C19: resize(width, height) called a second time with the same arguments
\* changes nothing, for the boat and for every lighthouse.
C19_ResizeIdempotent ==
    \A s \in Sizes :
        /\ LET once == boatResize(BoatState, s.width, s.height)
           IN  boatResize(once, s.width, s.height) = once
        /\ \A l \in Lighthouses :
              LET once == lighthouseResize(container[l], l, s.width, s.height)
              IN  lighthouseResize(once, l, s.width, s.height) = once

\* C20: every Signal constructed in a frame, by a lighthouse timer or by
\* the ambient spawn of updateSignals, is aimed at the boat's receiver as
\* the boat was placed at the start of that frame.
C20_AimedAtStartOfTick ==
    [][ticks' = ticks + 1 =>
         \A id \in nextId .. nextId' - 1 :
            /\ effects'[id].endX = container[Boat].x
            /\ effects'[id].endY = container[Boat].y - 200]_vars

\* C21: a frame in which a Signal of state.signals completes (progress >= 1)
\* puts the boat into the receiving state and creates a pulse Signal at the
\* boat.
C21_ReceptionOnComplete ==
    [][(ticks' = ticks + 1
          /\ \E i \in 1 .. Len(signals) : signals[i] \notin DOMAIN effects')
         => /\ boatEffects'.isReceivingSignal
            /\ Len(boatEffects'.activePulses) >= 1]_vars

C23_TimersUnsynchronized ==
    [][\A l1, l2 \in Lighthouses :
         (ticks' = ticks + 1 /\ signalTimer[l1] # signalTimer[l2])
            => /\ ~(fired'[l1] = fired[l1] + 1 /\ fired'[l2] = fired[l2] + 1)
               /\ (signalTimer'[l1] - signalTimer'[l2]) % signalRate
                     = (signalTimer[l1] - signalTimer[l2]) % signalRate]_vars

C25_ProgressWithinUnit ==
    [][ticks' = ticks + 1 =>
         /\ \A id \in DOMAIN effects' :
               effects'[id].progress >= 0 /\ effects'[id].progress <= 100
         /\ \A i \in 1 .. Len(signals) :
               LET drawn == SignalUpdate(effects[signals[i]], lastDelta')
               IN  drawn.progress >= 0 /\ drawn.progress <= 100]_vars

\* C27: whenever isZoomed is true and no zoom or exit animation is running,
\* layers.zoomedView is visible and holds the detail view of the focused
\* entity and a back button.
C27_LayerHoldsFocus ==
    (isZoomed /\ tweens = << >> /\ fades = << >>)
        => /\ zoomedView.visible
           /\ zoomedView.detailView = currentDetailView
           /\ backButton # "none"

\* C28: after any selections and back-actions on a lighthouse, without
\* resize, once every animation is over and isZoomed is false the x, y and
\* scale of its container are what they were before the first selection.
C28_RoundTrip ==
    (~isZoomed /\ tweens = << >> /\ fades = << >>)
        => \A l \in Lighthouses :
              /\ container[l].x = LighthouseX(l)
              /\ container[l].y = LighthouseY(l)
              /\ container[l].scale = 100

\* C29: a frame that runs while the boat is the focused entity writes
\* neither the x, the y nor the rotation of the boat's container.
C29_FocusedBoatNotMoved ==
    [][(ticks' = ticks + 1 /\ isZoomed /\ currentDetailView = Boat)
         => /\ container'[Boat].x = container[Boat].x
            /\ container'[Boat].y = container[Boat].y
            /\ container'[Boat].rotation = container[Boat].rotation]_vars

\* C30: in each branch of loadAssets and for every configuration, once
\* every configured image, spritesheet and audio file has loaded or failed
\* the promise returned by loadAssets is eventually resolved.
C30_LoadResolves == AllSettled ~> assets.promise = "resolved"

====
